---------------------------- MODULE Spec2Model ----------------------------
(***************************************************************************)
(* Model of official/recommendation/keras_ncf_main.py: the run_ncf driver  *)
(* (flags, data pipeline, producer, Keras model construction, compile and  *)
(* fit), the _logitfy wrapper and the compiled loss                        *)
(* softmax_crossentropy_with_logits.                                       *)
(*                                                                         *)
(* Tensors are sequences: a rank-1 tensor is a sequence of integers, a     *)
(* rank-2 tensor of shape [r, c] is a sequence of r rows of length c.      *)
(* An operation that can raise returns [ok |-> BOOLEAN, value |-> ...].    *)
(***************************************************************************)
EXTENDS Integers, Sequences, FiniteSets

VARIABLES
  FLAGS,                 \* absl flags read by run_ncf
  pc,                    \* position of run_ncf
  err,                   \* exception that ended run_ncf ("" if none)
  calls,                 \* the library calls run_ncf has made, in order
  params,                \* params dict (ncf_main.parse_flags)
  total_training_cycle,  \* line 87
  producer,              \* the data producer object
  num_train_steps,       \* lines 93/103/149
  num_eval_steps,        \* lines 94/105
  keras_model,           \* the model _logitfy returns, and whether it is compiled
  fitState,              \* keras_model.fit: its arguments and loop counters
  logits,                \* base model output of the current batch, [rows, w]
  y_true,                \* labels handed to the loss
  y_pred,                \* predictions handed to the loss
  loss                   \* result of the last loss evaluation

vars == <<FLAGS, pc, err, calls, params, total_training_cycle, producer,
          num_train_steps, num_eval_steps, keras_model, fitState,
          logits, y_true, y_pred, loss>>

-----------------------------------------------------------------------------
(* Bounds of the model *)

MaxBatch == 2          \* FLAGS.batch_size and tensor rows range over 1..MaxBatch
MaxWidth == 2          \* base model output width w ranges over 1..MaxWidth
MaxClasses == 3        \* y_pred columns range over 1..MaxClasses
MaxEpochs == 2         \* FLAGS.train_epochs, FLAGS.epochs_between_evals
MaxBatchesPerStep == 2 \* params["batches_per_step"]
MaxBatchesPerEpoch == 3 \* producer.{train,eval}_batches_per_epoch

(* data_preprocessing.SYNTHETIC_BATCHES_PER_EPOCH, read at lines 93-94 *)
SYNTHETIC_BATCHES_PER_EPOCH == 2000

LogitVals == {-1, 0, 1}
Labels == {0, 1}

-----------------------------------------------------------------------------
(* Tensor helpers *)

Range(s) == {s[i] : i \in 1..Len(s)}

RECURSIVE Flatten(_)
\* row-major list of the elements of a rank-2 tensor
Flatten(m) == IF m = <<>> THEN <<>> ELSE Head(m) \o Flatten(Tail(m))

\* every rank-2 tensor of shape [r, c] over the value set V
Matrices(r, c, V) == [1..r -> [1..c -> V]]

\* tf.reshape(t, [r, c]) on the row-major elements of t: raises when the
\* element counts differ, otherwise regroups the elements into r rows of c
tf_reshape2(flat, r, c) ==
  IF Len(flat) # r * c
    THEN [ok |-> FALSE, value |-> <<>>]
    ELSE [ok |-> TRUE,
          value |-> [i \in 1..r |-> [j \in 1..c |-> flat[(i - 1) * c + j]]]]

\* tf.reshape(t, [n]) on the row-major elements of t
tf_reshape1(flat, n) ==
  IF Len(flat) # n
    THEN [ok |-> FALSE, value |-> <<>>]
    ELSE [ok |-> TRUE, value |-> flat]

-----------------------------------------------------------------------------
(* _logitfy, lines 65-75 *)

\* line 67: the function inside the Lambda layer
ZeroLambda(x) == x * 0

\* line 67: the Lambda layer applied elementwise
zero_tensor(lg) == [i \in 1..Len(lg) |-> [j \in 1..Len(lg[i]) |-> ZeroLambda(lg[i][j])]]

\* the list of line 68 with its two entries exchanged
to_concatenate_swapped(lg) == <<lg, zero_tensor(lg)>>

\* line 68: the list handed to Concatenate
to_concatenate(lg) == <<zero_tensor(lg), lg>>

\* line 69: tf.keras.layers.Concatenate(axis=1): row i is the rows i of the
\* tensors in the list, joined in list order
concat_layer(ts) == [i \in 1..Len(ts[1]) |-> ts[1][i] \o ts[2][i]]

\* lines 71-72: tf.keras.layers.Reshape(target_shape=(c,)): reshapes every
\* example (row) to c elements and keeps the batch dimension
reshape_layer(m, c) ==
  LET rows == [i \in 1..Len(m) |-> tf_reshape1(m[i], c)]
  IN  [ok |-> \A i \in 1..Len(m) : rows[i].ok,
       value |-> [i \in 1..Len(m) |-> rows[i].value]]

\* lines 65-75: the output of the returned model on a batch whose base model
\* output is lg; the target shape is concat_layer.shape[1]
Logitfy(lg) ==
  LET c == concat_layer(to_concatenate(lg))
  IN  reshape_layer(c, Len(c[1]))

-----------------------------------------------------------------------------
(* softmax_crossentropy_with_logits, lines 130-139 *)

\* tf.losses.sparse_softmax_cross_entropy(labels, logits): labels is [n],
\* logits is [n, classes], every label must index a class. The value kept is
\* the list of (label, logits row) pairs the cross-entropy is taken over.
sparse_softmax_cross_entropy(labels, lg) ==
  IF /\ Len(labels) = Len(lg)
     /\ \A i \in 1..Len(labels) : labels[i] \in 0..(Len(lg[i]) - 1)
    THEN [ok |-> TRUE, value |-> [i \in 1..Len(labels) |-> <<labels[i], lg[i]>>]]
    ELSE [ok |-> FALSE, value |-> <<>>]

\* lines 136-139: yt is the label tensor (row-major elements), yp the rank-2
\* prediction tensor, bs is FLAGS.batch_size
softmax_crossentropy_with_logits(yt, yp, bs) ==
  LET labels == tf_reshape1(yt, bs)
      lg     == tf_reshape2(Flatten(yp), bs, 2)
  IN  IF labels.ok /\ lg.ok
        THEN sparse_softmax_cross_entropy(labels.value, lg.value)
        ELSE [ok |-> FALSE, value |-> <<>>]

NoLoss == [ok |-> FALSE, value |-> <<>>]

-----------------------------------------------------------------------------
(* run_ncf, lines 78-161 *)

NoProducer == [kind |-> "none", started |-> 0, has_batches |-> FALSE,
               train_batches_per_epoch |-> 0, eval_batches_per_epoch |-> 0]

NoModel == [built |-> FALSE, w |-> 0, compiled |-> FALSE]

NoFit == [called |-> FALSE, epochs |-> 0, steps_per_epoch |-> 0,
          validation |-> FALSE, epoch |-> 0, step |-> 0, evals |-> 0]

NoParams == [batches_per_step |-> 0]

FlagValues ==
  [download_if_missing : BOOLEAN, use_synthetic_data : BOOLEAN,
   train_epochs : 1..MaxEpochs, epochs_between_evals : 1..MaxEpochs,
   batch_size : 1..MaxBatch]

\* the state in which main calls run_ncf (line 62)
Init ==
  /\ FLAGS \in FlagValues
  /\ pc = "download"
  /\ err = ""
  /\ calls = <<>>
  /\ params = NoParams
  /\ total_training_cycle = 0
  /\ producer = NoProducer
  /\ num_train_steps = 0
  /\ num_eval_steps = 0
  /\ keras_model = NoModel
  /\ fitState = NoFit
  /\ logits = <<>>
  /\ y_true = <<>>
  /\ y_pred = <<>>
  /\ loss = NoLoss

\* lines 80-81
Download ==
  /\ pc = "download"
  /\ calls' = IF FLAGS.download_if_missing /\ ~FLAGS.use_synthetic_data
                THEN Append(calls, "movielens.download")
                ELSE calls
  /\ pc' = "parse"
  /\ UNCHANGED <<FLAGS, err, params, total_training_cycle, producer,
                 num_train_steps, num_eval_steps, keras_model, fitState,
                 logits, y_true, y_pred, loss>>

\* lines 83-87: parse_flags returns the params dict; batches_per_step is
\* the number of devices, at least 1
ParseFlags ==
  /\ pc = "parse"
  /\ \E bps \in 1..MaxBatchesPerStep : params' = [batches_per_step |-> bps]
  /\ total_training_cycle' = FLAGS.train_epochs \div FLAGS.epochs_between_evals
  /\ calls' = Append(calls, "parse_flags")
  /\ pc' = "pipeline"
  /\ UNCHANGED <<FLAGS, err, producer, num_train_steps, num_eval_steps,
                 keras_model, fitState, logits, y_true, y_pred, loss>>

\* lines 89-94: DummyConstructor may or may not carry the
\* train_batches_per_epoch attribute line 149 reads
SyntheticPipeline ==
  /\ pc = "pipeline"
  /\ FLAGS.use_synthetic_data
  /\ \E hb \in BOOLEAN, tb \in 1..MaxBatchesPerEpoch :
       producer' = [kind |-> "dummy", started |-> 0, has_batches |-> hb,
                    train_batches_per_epoch |-> IF hb THEN tb ELSE 0,
                    eval_batches_per_epoch |-> IF hb THEN tb ELSE 0]
  /\ num_train_steps' = SYNTHETIC_BATCHES_PER_EPOCH
  /\ num_eval_steps' = SYNTHETIC_BATCHES_PER_EPOCH
  /\ calls' = Append(calls, "DummyConstructor")
  /\ pc' = "start"
  /\ UNCHANGED <<FLAGS, err, params, total_training_cycle, keras_model,
                 fitState, logits, y_true, y_pred, loss>>

\* lines 107-108 with the second assert left out
PipelineAsserts_TrainOnly(tb, eb, bps) == tb % bps = 0

\* lines 107-108: the two assert statements
PipelineAsserts(tb, eb, bps) == tb % bps = 0 /\ eb % bps = 0

\* lines 96-108
InstantiatePipeline ==
  /\ pc = "pipeline"
  /\ ~FLAGS.use_synthetic_data
  /\ \E tb \in 1..MaxBatchesPerEpoch, eb \in 1..MaxBatchesPerEpoch :
       /\ producer' = [kind |-> "real", started |-> 0, has_batches |-> TRUE,
                       train_batches_per_epoch |-> tb,
                       eval_batches_per_epoch |-> eb]
       /\ num_train_steps' = tb \div params.batches_per_step
       /\ num_eval_steps' = eb \div params.batches_per_step
       /\ IF PipelineAsserts(tb, eb, params.batches_per_step)
            THEN pc' = "start" /\ err' = err
            ELSE pc' = "error" /\ err' = "AssertionError"
  /\ calls' = Append(calls, "instantiate_pipeline")
  /\ UNCHANGED <<FLAGS, params, total_training_cycle, keras_model, fitState,
                 logits, y_true, y_pred, loss>>

\* lines 109-112 with the producer.start() call left out
ProducerStart_Skipped ==
  /\ pc = "start"
  /\ pc' = "input_fn"
  /\ UNCHANGED <<FLAGS, err, calls, params, total_training_cycle, producer,
                 num_train_steps, num_eval_steps, keras_model, fitState,
                 logits, y_true, y_pred, loss>>

\* lines 109-112
ProducerStart ==
  /\ pc = "start"
  /\ producer' = [producer EXCEPT !.started = @ + 1]
  /\ calls' = Append(calls, "producer.start")
  /\ pc' = "input_fn"
  /\ UNCHANGED <<FLAGS, err, params, total_training_cycle, num_train_steps,
                 num_eval_steps, keras_model, fitState, logits, y_true,
                 y_pred, loss>>

\* lines 115-116
MakeInputFn ==
  /\ pc = "input_fn"
  /\ calls' = Append(calls, "make_input_fn")
  /\ pc' = "model"
  /\ UNCHANGED <<FLAGS, err, params, total_training_cycle, producer,
                 num_train_steps, num_eval_steps, keras_model, fitState,
                 logits, y_true, y_pred, loss>>

\* lines 118-128: the base model's output width w is fixed by
\* neumf_model.construct_model_keras
ConstructModel ==
  /\ pc = "model"
  /\ \E w \in 1..MaxWidth :
       keras_model' = [built |-> TRUE, w |-> w, compiled |-> FALSE]
  /\ calls' = calls \o <<"construct_model_keras", "_logitfy">>
  /\ pc' = "compile"
  /\ UNCHANGED <<FLAGS, err, params, total_training_cycle, producer,
                 num_train_steps, num_eval_steps, fitState, logits, y_true,
                 y_pred, loss>>

\* lines 141-147
Compile ==
  /\ pc = "compile"
  /\ keras_model' = [keras_model EXCEPT !.compiled = TRUE]
  /\ calls' = Append(calls, "compile")
  /\ pc' = "steps"
  /\ UNCHANGED <<FLAGS, err, params, total_training_cycle, producer,
                 num_train_steps, num_eval_steps, fitState, logits, y_true,
                 y_pred, loss>>

\* lines 149-153
RecomputeSteps ==
  /\ pc = "steps"
  /\ IF producer.has_batches
       THEN /\ num_train_steps' =
                 producer.train_batches_per_epoch \div params.batches_per_step
            /\ pc' = "fit"
            /\ err' = err
       ELSE /\ num_train_steps' = num_train_steps
            /\ pc' = "error"
            /\ err' = "AttributeError"
  /\ UNCHANGED <<FLAGS, calls, params, total_training_cycle, producer,
                 num_eval_steps, keras_model, fitState, logits, y_true,
                 y_pred, loss>>

\* lines 156-160: the arguments of keras_model.fit; no validation_data is
\* passed
FitArgs ==
  [called |-> TRUE, epochs |-> FLAGS.train_epochs,
   steps_per_epoch |-> num_train_steps, validation |-> FALSE,
   epoch |-> 0, step |-> 0, evals |-> 0]

\* line 156: keras_model.fit is entered
Fit ==
  /\ pc = "fit"
  /\ fitState' = FitArgs
  /\ calls' = Append(calls, "fit")
  /\ pc' = "training"
  /\ UNCHANGED <<FLAGS, err, params, total_training_cycle, producer,
                 num_train_steps, num_eval_steps, keras_model, logits,
                 y_true, y_pred, loss>>

\* the base model's output and the labels of one batch of the training
\* dataset: batch_size examples (lines 118-121), w logits each
BatchLogits(bs, w, n) == [i \in 1..bs |-> [j \in 1..w |-> ((n + i + j) % 3) - 1]]
BatchLabels(bs, n) == [i \in 1..bs |-> (n + i) % 2]

\* one training step inside fit: the batch goes through the model built at
\* line 124 and the loss compiled at line 144
FitStep ==
  /\ pc = "training"
  /\ fitState.step < fitState.steps_per_epoch
  /\ LET n   == fitState.epoch * fitState.steps_per_epoch + fitState.step
         lg  == BatchLogits(FLAGS.batch_size, keras_model.w, n)
         yt  == BatchLabels(FLAGS.batch_size, n)
         out == Logitfy(lg)
         l   == softmax_crossentropy_with_logits(yt, out.value, FLAGS.batch_size)
     IN  /\ logits' = lg
         /\ y_true' = yt
         /\ y_pred' = out.value
         /\ loss' = l
         /\ IF out.ok /\ l.ok
              THEN /\ fitState' = [fitState EXCEPT !.step = @ + 1]
                   /\ pc' = pc
                   /\ err' = err
              ELSE /\ fitState' = fitState
                   /\ pc' = "error"
                   /\ err' = "InvalidArgumentError"
  /\ UNCHANGED <<FLAGS, calls, params, total_training_cycle, producer,
                 num_train_steps, num_eval_steps, keras_model>>

\* the end of an epoch inside fit: the model is evaluated only when
\* validation data was passed; after the last epoch fit returns and run_ncf
\* returns (line 161)
FitEpochEnd ==
  /\ pc = "training"
  /\ fitState.step >= fitState.steps_per_epoch
  /\ fitState' = [fitState EXCEPT
                    !.epoch = @ + 1,
                    !.step = 0,
                    !.evals = IF fitState.validation THEN @ + 1 ELSE @]
  /\ calls' = IF fitState.validation THEN Append(calls, "evaluate") ELSE calls
  /\ pc' = IF fitState.epoch + 1 >= fitState.epochs THEN "done" ELSE pc
  /\ UNCHANGED <<FLAGS, err, params, total_training_cycle, producer,
                 num_train_steps, num_eval_steps, keras_model, logits,
                 y_true, y_pred, loss>>

Next ==
  \/ Download
  \/ ParseFlags
  \/ SyntheticPipeline
  \/ InstantiatePipeline
  \/ ProducerStart
  \/ MakeInputFn
  \/ ConstructModel
  \/ Compile
  \/ RecomputeSteps
  \/ Fit
  \/ FitStep
  \/ FitEpochEnd

Spec == Init /\ [][Next]_vars

-----------------------------------------------------------------------------
(* The two pure functions on their own: the inputs are drawn in the initial *)
(* state, run_ncf itself does not run.                                      *)

FnFlags(bs) ==
  [download_if_missing |-> FALSE, use_synthetic_data |-> TRUE,
   train_epochs |-> 1, epochs_between_evals |-> 1, batch_size |-> bs]

FnRunVars(bs, at) ==
  /\ FLAGS = FnFlags(bs)
  /\ pc = at
  /\ err = ""
  /\ calls = <<>>
  /\ params = NoParams
  /\ total_training_cycle = 0
  /\ producer = NoProducer
  /\ num_train_steps = 0
  /\ num_eval_steps = 0
  /\ keras_model = NoModel
  /\ fitState = NoFit

\* a batch of r examples (r = FLAGS.batch_size, lines 118-121), a base model
\* of output width w, and the labels of the batch
InitLogitfy ==
  \E r \in 1..MaxBatch, w \in 1..MaxWidth :
    /\ FnRunVars(r, "fn")
    /\ logits \in Matrices(r, w, LogitVals)
    /\ y_true \in [1..r -> Labels]
    /\ y_pred = <<>>
    /\ loss = NoLoss

\* the model _logitfy returned is applied to the batch
CallModel ==
  /\ pc = "fn"
  /\ LET out == Logitfy(logits)
     IN  /\ y_pred' = out.value
         /\ pc' = IF out.ok THEN "fn_out" ELSE "error"
         /\ err' = IF out.ok THEN err ELSE "ValueError"
  /\ UNCHANGED <<FLAGS, calls, params, total_training_cycle, producer,
                 num_train_steps, num_eval_steps, keras_model, fitState,
                 logits, y_true, loss>>

\* the compiled loss is applied to the model's output
LossOnOutput ==
  /\ pc = "fn_out"
  /\ LET l == softmax_crossentropy_with_logits(y_true, y_pred, FLAGS.batch_size)
     IN  /\ loss' = l
         /\ pc' = IF l.ok THEN "fn_loss" ELSE "error"
         /\ err' = IF l.ok THEN err ELSE "InvalidArgumentError"
  /\ UNCHANGED <<FLAGS, calls, params, total_training_cycle, producer,
                 num_train_steps, num_eval_steps, keras_model, fitState,
                 logits, y_true, y_pred>>

NextLogitfy == CallModel \/ LossOnOutput

SpecLogitfy == InitLogitfy /\ [][NextLogitfy]_vars

\* FLAGS.batch_size, a label tensor of r elements and a prediction tensor of
\* shape [r, n]
InitLoss ==
  \E bs \in 1..MaxBatch, r \in 1..MaxBatch, n \in 1..MaxClasses :
    /\ FnRunVars(bs, "loss")
    /\ logits = <<>>
    /\ y_true \in [1..r -> Labels]
    /\ y_pred \in Matrices(r, n, LogitVals)
    /\ loss = NoLoss

\* softmax_crossentropy_with_logits(y_true, y_pred) is evaluated
EvalLoss ==
  /\ pc = "loss"
  /\ LET l == softmax_crossentropy_with_logits(y_true, y_pred, FLAGS.batch_size)
     IN  /\ loss' = l
         /\ pc' = IF l.ok THEN "loss_done" ELSE "error"
         /\ err' = IF l.ok THEN err ELSE "InvalidArgumentError"
  /\ UNCHANGED <<FLAGS, calls, params, total_training_cycle, producer,
                 num_train_steps, num_eval_steps, keras_model, fitState,
                 logits, y_true, y_pred>>

NextLoss == EvalLoss

SpecLoss == InitLoss /\ [][NextLoss]_vars

-----------------------------------------------------------------------------
(* Properties *)

\* C1: every execution of run_ncf that returns normally has evaluated the
\* model at least once after training started.
C1_ReturnImpliesEvaluated ==
  pc = "done" => fitState.evals >= 1 \/ "evaluate" \in Range(calls)

\* C2: given y_true of shape [batch_size] and y_pred of shape
\* [batch_size, num_classes], for every num_classes >= 1 the loss does not
\* fail and takes the cross-entropy over the batch_size rows of y_pred as
\* they are, row i with label i.
C2_LossKeepsRows ==
  (/\ pc \in {"loss_done", "error"}
   /\ Len(y_true) = FLAGS.batch_size
   /\ Len(y_pred) = FLAGS.batch_size)
  => /\ loss.ok
     /\ Len(loss.value) = FLAGS.batch_size
     /\ \A i \in 1..FLAGS.batch_size : loss.value[i] = <<y_true[i], y_pred[i]>>

\* C3: on the real-data path producer.start() is reached only if both
\* batch counts are multiples of batches_per_step; otherwise run_ncf ends
\* with an AssertionError before the producer is started, before the model
\* is built and before fit is called; when the asserts pass, the step counts
\* times batches_per_step give back the batch counts.
C3_AssertsGuardStart ==
  (~FLAGS.use_synthetic_data /\ producer.kind = "real")
  => LET bps  == params.batches_per_step
         tb   == producer.train_batches_per_epoch
         eb   == producer.eval_batches_per_epoch
         mult == tb % bps = 0 /\ eb % bps = 0
     IN  /\ producer.started > 0 => mult
         /\ ~mult => /\ pc = "error"
                     /\ err = "AssertionError"
                     /\ producer.started = 0
                     /\ ~keras_model.built
                     /\ ~fitState.called
                     /\ "producer.start" \notin Range(calls)
                     /\ "fit" \notin Range(calls)
         /\ mult => /\ err # "AssertionError"
                    /\ num_train_steps * bps = tb
                    /\ num_eval_steps * bps = eb

\* C3 witness: a real-data run stopped by the asserts
C3_Witness ==
  /\ ~FLAGS.use_synthetic_data
  /\ producer.kind = "real"
  /\ producer.train_batches_per_epoch % params.batches_per_step = 0
  /\ producer.eval_batches_per_epoch % params.batches_per_step # 0
  /\ pc = "error"

\* C4: the model _logitfy returns gives, for a base output of width w, rows
\* of width 2*w whose first w entries are 0 and whose last w entries are the
\* base logits in order; for w = 1 each row is <<0, logit>>, the
\* [batch_size, 2] tensor the loss reshapes to, and the loss takes it row by
\* row.
C4_LogitfyOutput ==
  (pc \in {"fn_out", "fn_loss", "error"})
  => /\ Len(y_pred) = Len(logits)
     /\ \A i \in 1..Len(logits) :
          LET w == Len(logits[i])
          IN  /\ Len(y_pred[i]) = 2 * w
              /\ \A j \in 1..w : y_pred[i][j] = 0 /\ y_pred[i][w + j] = logits[i][j]
              /\ w = 1 =>
                   /\ y_pred[i] = <<0, logits[i][1]>>
                   /\ tf_reshape2(Flatten(y_pred), FLAGS.batch_size, 2)
                        = [ok |-> TRUE, value |-> y_pred]
                   /\ pc # "error"
                   /\ pc = "fn_loss" => loss.value[i] = <<y_true[i], y_pred[i]>>

\* C4 witness: a two-example batch through a base model of width 2
C4_Witness ==
  /\ pc = "fn_out"
  /\ Len(logits) = 2
  /\ logits[1] = <<1, -1>>
  /\ logits[2] = <<0, 1>>

C5Named(c) ==
  c \in {"movielens.download", "DummyConstructor", "instantiate_pipeline",
         "producer.start", "make_input_fn", "construct_model_keras",
         "_logitfy", "compile", "fit"}

C5Orders ==
  {pre \o <<ctor, "producer.start", "make_input_fn", "construct_model_keras",
            "_logitfy", "compile", "fit">> :
     pre \in {<<>>, <<"movielens.download">>},
     ctor \in {"DummyConstructor", "instantiate_pipeline"}}

\* C5: once fit has been called, the calls made are, in order and once each,
\* (optionally) movielens.download, the producer's construction,
\* producer.start, make_input_fn, the model's construction, compile, fit;
\* the producer is never started twice and fit only runs on a started
\* producer.
C5_CallOrder ==
  /\ producer.started <= 1
  /\ (fitState.called \/ "fit" \in Range(calls)) =>
       /\ SelectSeq(calls, C5Named) \in C5Orders
       /\ producer.started = 1
       /\ keras_model.built /\ keras_model.compiled

\* C5 witness: run_ncf returned after fit, having downloaded the dataset
C5_Witness ==
  /\ pc = "done"
  /\ fitState.called
  /\ Head(calls) = "movielens.download"

=============================================================================
